---- MODULE Spec2Model ----
(***************************************************************************)
(* Model of the recursive-descent parser of src/parse.rs.                  *)
(*                                                                         *)
(* The rules of the parser are pure functions of (tokens, index); they are *)
(* operators here, written branch for branch after the Rust code.  The     *)
(* top-level driver `parse` is the state machine: one action per way one   *)
(* turn of its while loop can end.                                         *)
(*                                                                         *)
(* Indices are the zero-based indices of the code; At(tokens, i) is the    *)
(* Rust expression tokens[i].  A Rust index at or past the end panics; a   *)
(* rule that panics yields the result kind "fault", which every caller     *)
(* hands on unchanged (a panic unwinds through all frames).                *)
(*                                                                         *)
(* A token's source location is represented by its index in the sequence.  *)
(***************************************************************************)
EXTENDS Integers, Sequences, FiniteSets, TLC

VARIABLES tokens, pc, index, ast, result, errLoc, oob, printed, tried

vars == <<tokens, pc, index, ast, result, errLoc, oob, printed, tried>>

(***************************************************************************)
(* Bounds of the model.                                                    *)
(***************************************************************************)
\* every token sequence over Alphabet of at most this length is an input
MaxLen == 3
\* every sequence over CallAlphabet of at most this length is an input
MaxCallLen == 5
\* function declarations with up to this many parameters are inputs
MaxParams == 2
\* function declarations with up to this many body statements are inputs
MaxBody == 2

(***************************************************************************)
(* Tokens (lex::Token): kind, value; the location is the index.            *)
(***************************************************************************)
KW(v) == [kind |-> "Keyword", value |-> v]
SY(v) == [kind |-> "Syntax", value |-> v]
ID(v) == [kind |-> "Identifier", value |-> v]
NUM(v) == [kind |-> "Number", value |-> v]

Alphabet ==
  { KW("function"), KW("return"), KW("local"), KW("if"), KW("then"), KW("end"),
    SY("("), SY(")"), SY(","), SY(";"), SY("+"), ID("a"), NUM("1") }

\* the tokens function calls and expression statements are made of
CallAlphabet == { ID("a"), SY("("), SY(")"), SY(","), SY(";") }

\* tokens[i] of the code, for an index inside the sequence
At(toks, i) == toks[i + 1]

(***************************************************************************)
(* AST nodes.                                                              *)
(***************************************************************************)
NoNode == [type |-> "None"]

LiteralIdentifier(t) == [type |-> "Literal", lit |-> "Identifier", token |-> t]
LiteralNumber(t) == [type |-> "Literal", lit |-> "Number", token |-> t]
FunctionCall(name, arguments) ==
  [type |-> "FunctionCall", name |-> name, arguments |-> arguments]
BinaryOperation(operator, left, right) ==
  [type |-> "BinaryOperation", operator |-> operator, left |-> left, right |-> right]

StatementExpression(e) == [type |-> "Expression", expression |-> e]
If(test, body) == [type |-> "If", test |-> test, body |-> body]
FunctionDeclaration(name, parameters, body) ==
  [type |-> "FunctionDeclaration", name |-> name, parameters |-> parameters,
   body |-> body]
Return(e) == [type |-> "Return", expression |-> e]
Local(name, e) == [type |-> "Local", name |-> name, expression |-> e]

(***************************************************************************)
(* Results of a rule.  "some" is Some((node, pos)); "none" is None;        *)
(* "fault" is a panic on an index at or past the end (at |-> the index);   *)
(* "diverge" is a loop that has not ended after LoopLimit turns.           *)
(* out is the diagnostics the call has printed, in order, each a pair      *)
(* <<message, location>>.  hard and trace are observations, invisible to   *)
(* the code: hard tells that a None was returned after the rule had        *)
(* matched its leading token; trace lists what parse_statement tried.      *)
(***************************************************************************)
Some(node, pos, out) ==
  [kind |-> "some", node |-> node, pos |-> pos, hard |-> FALSE, out |-> out,
   at |-> -1, trace |-> <<>>]
None(hard, out) ==
  [kind |-> "none", node |-> NoNode, pos |-> 0, hard |-> hard, out |-> out,
   at |-> -1, trace |-> <<>>]
Fault(i, out) ==
  [kind |-> "fault", node |-> NoNode, pos |-> 0, hard |-> TRUE, out |-> out,
   at |-> i, trace |-> <<>>]
Diverge(out) ==
  [kind |-> "diverge", node |-> NoNode, pos |-> 0, hard |-> TRUE, out |-> out,
   at |-> -1, trace |-> <<>>]

\* the result r of a callee, with the caller's earlier output put before it
Prepend(out, r) == [r EXCEPT !.out = out \o r.out]

\* println!("{}", tokens[i].loc.debug(*raw, msg)); return None;
\* the index is evaluated first: past the end it panics and nothing is printed
Fail(toks, i, msg, out) ==
  IF i >= Len(toks) THEN Fault(i, out)
  ELSE None(TRUE, Append(out, <<msg, i>>))

\* no loop of the code can take this many turns on this input; a loop that
\* does is reported as "diverge"
LoopLimit(toks) == Len(toks) + 2

(***************************************************************************)
(* Token predicates, parse.rs 64-98.                                       *)
(***************************************************************************)
expect_keyword(toks, i, value) ==
  IF i >= Len(toks) THEN FALSE
  ELSE At(toks, i).kind = "Keyword" /\ At(toks, i).value = value

expect_syntax(toks, i, value) ==
  IF i >= Len(toks) THEN FALSE
  ELSE At(toks, i).kind = "Syntax" /\ At(toks, i).value = value

expect_identifier(toks, i) ==
  IF i >= Len(toks) THEN FALSE
  ELSE At(toks, i).kind = "Identifier"

expect_number(toks, i) ==
  IF i >= Len(toks) THEN FALSE
  ELSE At(toks, i).kind = "Number"

\* the match of lines 105-108 and 155-158
literal_of(t) ==
  IF t.kind = "Number" THEN LiteralNumber(t) ELSE LiteralIdentifier(t)

\* let x = v; followed by the code K that uses x: v is evaluated once
Let(v, K(_)) == CHOOSE y \in { K(x) : x \in {v} } : TRUE

RECURSIVE parse_expression(_, _)
RECURSIVE call_arguments(_, _, _, _, _)
RECURSIVE parse_statement(_, _)
RECURSIVE try_parsers(_, _, _, _, _)
RECURSIVE parse_function(_, _)
RECURSIVE function_parameters(_, _, _, _)
RECURSIVE function_body(_, _, _, _, _)
RECURSIVE parse_if(_, _)
RECURSIVE if_body(_, _, _, _, _)

(***************************************************************************)
(* parse_expression, parse.rs 100-162.                                     *)
(***************************************************************************)
\* the while loop of lines 115-134; node of the result is the argument list
call_arguments(toks, next_index, arguments, out, fuel) ==
  IF expect_syntax(toks, next_index, ")") THEN Some(arguments, next_index, out)
  ELSE IF fuel = 0 THEN Diverge(out)
  ELSE
    IF Len(arguments) > 0 /\ ~expect_syntax(toks, next_index, ",")
    THEN Fail(toks, next_index, "Expected comma between function call arguments:", out)
    ELSE
      LET arg_index == IF Len(arguments) > 0 THEN next_index + 1 ELSE next_index
      IN Let(parse_expression(toks, arg_index), LAMBDA res :
           IF res.kind = "some"
           THEN call_arguments(toks, res.pos, Append(arguments, res.node),
                               out \o res.out, fuel - 1)
           ELSE IF res.kind = "none"
           THEN Fail(toks, arg_index,
                     "Expected valid expression in function call arguments:",
                     out \o res.out)
           ELSE Prepend(out, res))

parse_expression(toks, i) ==
  IF ~expect_identifier(toks, i) \/ expect_number(toks, i)
  THEN None(FALSE, <<>>)
  ELSE
    LET left == literal_of(At(toks, i))
        next_index == i + 1
    IN IF expect_syntax(toks, next_index, "(")
       THEN Let(call_arguments(toks, next_index + 1, <<>>, <<>>, LoopLimit(toks)),
                LAMBDA args :
                  IF args.kind = "some"
                  THEN Some(FunctionCall(At(toks, i), args.node), args.pos + 1,
                            args.out)
                  ELSE args)
       ELSE IF next_index >= Len(toks) \/ At(toks, next_index).kind # "Syntax"
       THEN Fail(toks, next_index, "Expected valid binary operation:", <<>>)
       ELSE
         LET op == At(toks, next_index)
             rhs_index == next_index + 1
         IN IF ~expect_identifier(toks, rhs_index) \/ ~expect_number(toks, rhs_index)
            THEN Fail(toks, rhs_index,
                      "Expected valid right hand side binary operand:", <<>>)
            ELSE Some(BinaryOperation(op, left, literal_of(At(toks, rhs_index))),
                      rhs_index + 1, <<>>)

(***************************************************************************)
(* parse_function, parse.rs 164-219.                                       *)
(***************************************************************************)
\* the while loop of lines 184-195; node of the result is the parameter list
function_parameters(toks, next_index, parameters, fuel) ==
  IF expect_syntax(toks, next_index, ")") THEN Some(parameters, next_index, <<>>)
  ELSE IF fuel = 0 THEN Diverge(<<>>)
  ELSE
    IF Len(parameters) > 0 /\ ~expect_syntax(toks, next_index, ",")
    THEN Fail(toks, next_index,
              "Expected comma or close parenthesis after parameter in function declaration:",
              <<>>)
    ELSE
      LET param_index == IF Len(parameters) > 0 THEN next_index + 1 ELSE next_index
      IN IF param_index >= Len(toks) THEN Fault(param_index, <<>>)
         ELSE function_parameters(toks, param_index,
                                  Append(parameters, At(toks, param_index)),
                                  fuel - 1)

\* function_body without `next_index = next_next_index` (line 204)
function_body_stuck(toks, next_index, statements, out, fuel) ==
  IF expect_keyword(toks, next_index, "end") THEN Some(statements, next_index, out)
  ELSE IF fuel = 0 THEN Diverge(out)
  ELSE
    Let(parse_statement(toks, next_index), LAMBDA res :
      IF res.kind = "some"
      THEN function_body(toks, next_index, Append(statements, res.node),
                         out \o res.out, fuel - 1)
      ELSE IF res.kind = "none"
      THEN Fail(toks, next_index,
                "Expected valid statement in function declaration:",
                out \o res.out)
      ELSE Prepend(out, [res EXCEPT !.trace = <<>>]))

\* the while loop of lines 200-210; node of the result is the statement list
function_body(toks, next_index, statements, out, fuel) ==
  IF expect_keyword(toks, next_index, "end") THEN Some(statements, next_index, out)
  ELSE IF fuel = 0 THEN Diverge(out)
  ELSE
    Let(parse_statement(toks, next_index), LAMBDA res :
      IF res.kind = "some"
      THEN function_body(toks, res.pos, Append(statements, res.node),
                         out \o res.out, fuel - 1)
      ELSE IF res.kind = "none"
      THEN Fail(toks, next_index,
                "Expected valid statement in function declaration:",
                out \o res.out)
      ELSE Prepend(out, [res EXCEPT !.trace = <<>>]))

parse_function(toks, i) ==
  IF ~expect_keyword(toks, i, "function") THEN None(FALSE, <<>>)
  ELSE IF ~expect_identifier(toks, i + 1)
  THEN Fail(toks, i + 1, "Expected valid identifier for function name:", <<>>)
  ELSE IF ~expect_syntax(toks, i + 2, "(")
  THEN Fail(toks, i + 2, "Expected open parenthesis in function declaration:", <<>>)
  ELSE
    LET name == At(toks, i + 1)
    IN Let(function_parameters(toks, i + 3, <<>>, LoopLimit(toks)), LAMBDA params :
         IF params.kind # "some" THEN params
         ELSE
           Let(function_body(toks, params.pos + 1, <<>>, <<>>, LoopLimit(toks)),
               LAMBDA body :
                 IF body.kind # "some" THEN body
                 ELSE Some(FunctionDeclaration(name, params.node, body.node),
                           body.pos + 1, body.out)))

(***************************************************************************)
(* parse_return, parse.rs 221-243.                                         *)
(***************************************************************************)
\* parse_return returning index where it should return next_index (line 242)
parse_return_stale_index(toks, i) ==
  IF ~expect_keyword(toks, i, "return") THEN None(FALSE, <<>>)
  ELSE
    Let(parse_expression(toks, i + 1), LAMBDA res :
      IF res.kind = "none"
      THEN Fail(toks, i + 1, "Expected valid expression in return statement:",
                res.out)
      ELSE IF res.kind # "some" THEN res
      ELSE IF ~expect_syntax(toks, res.pos, ";")
      THEN Fail(toks, res.pos, "Expected semicolon in return statement:", res.out)
      ELSE Some(Return(res.node), i, res.out))

parse_return(toks, i) ==
  IF ~expect_keyword(toks, i, "return") THEN None(FALSE, <<>>)
  ELSE
    Let(parse_expression(toks, i + 1), LAMBDA res :
      IF res.kind = "none"
      THEN Fail(toks, i + 1, "Expected valid expression in return statement:",
                res.out)
      ELSE IF res.kind # "some" THEN res
      ELSE IF ~expect_syntax(toks, res.pos, ";")
      THEN Fail(toks, res.pos, "Expected semicolon in return statement:", res.out)
      ELSE Some(Return(res.node), res.pos + 1, res.out))

(***************************************************************************)
(* parse_local, parse.rs 245-277.                                          *)
(***************************************************************************)
parse_local(toks, i) ==
  IF ~expect_keyword(toks, i, "local") THEN None(FALSE, <<>>)
  ELSE IF ~expect_identifier(toks, i + 1)
  THEN Fail(toks, i + 1, "Expected valid identifier for function name:", <<>>)
  ELSE
    LET name == At(toks, i + 1)
    IN Let(parse_expression(toks, i + 2), LAMBDA res :
         IF res.kind = "none"
         THEN Fail(toks, i + 2, "Expected valid expression in local declaration:",
                   res.out)
         ELSE IF res.kind # "some" THEN res
         ELSE IF ~expect_syntax(toks, res.pos, ";")
         THEN Fail(toks, res.pos, "Expected semicolon in return statement:", res.out)
         ELSE Some(Local(name, res.node), res.pos + 1, res.out))

(***************************************************************************)
(* parse_if, parse.rs 279-316.                                             *)
(***************************************************************************)
\* the while loop of lines 301-311; node of the result is the statement list
if_body(toks, next_index, statements, out, fuel) ==
  IF expect_keyword(toks, next_index, "end") THEN Some(statements, next_index, out)
  ELSE IF fuel = 0 THEN Diverge(out)
  ELSE
    Let(parse_statement(toks, next_index), LAMBDA res :
      IF res.kind = "some"
      THEN if_body(toks, res.pos, Append(statements, res.node),
                   out \o res.out, fuel - 1)
      ELSE IF res.kind = "none"
      THEN Fail(toks, next_index, "Expected valid statement in if body:",
                out \o res.out)
      ELSE Prepend(out, [res EXCEPT !.trace = <<>>]))

parse_if(toks, i) ==
  IF ~expect_keyword(toks, i, "if") THEN None(FALSE, <<>>)
  ELSE
    Let(parse_expression(toks, i + 1), LAMBDA res :
      IF res.kind = "none"
      THEN Fail(toks, i + 1, "Expected valid expression for if test:", res.out)
      ELSE IF res.kind # "some" THEN res
      ELSE IF ~expect_keyword(toks, res.pos, "then")
      THEN None(TRUE, res.out)
      ELSE
        Let(if_body(toks, res.pos + 1, <<>>, res.out, LoopLimit(toks)),
            LAMBDA body :
              IF body.kind # "some" THEN body
              ELSE Some(If(res.node, body.node), body.pos + 1, body.out)))

(***************************************************************************)
(* parse_expression_statement, parse.rs 318-336.                           *)
(***************************************************************************)
\* parse_expression_statement without the semicolon check of lines 328-331
parse_expression_statement_no_semicolon(toks, i) ==
  Let(parse_expression(toks, i), LAMBDA res :
    IF res.kind = "none"
    THEN [Fail(toks, i, "Expected valid expression in statement:", res.out)
            EXCEPT !.hard = res.hard \/ i >= Len(toks)]
    ELSE IF res.kind # "some" THEN res
    ELSE Some(StatementExpression(res.node), res.pos + 1, res.out))

parse_expression_statement(toks, i) ==
  Let(parse_expression(toks, i), LAMBDA res :
    IF res.kind = "none"
    THEN \* the rule has matched its leading token iff parse_expression had
         [Fail(toks, i, "Expected valid expression in statement:", res.out)
            EXCEPT !.hard = res.hard \/ i >= Len(toks)]
    ELSE IF res.kind # "some" THEN res
    ELSE IF ~expect_syntax(toks, res.pos, ";")
    THEN Fail(toks, res.pos, "Expected semicolon after expression:", res.out)
    ELSE Some(StatementExpression(res.node), res.pos + 1, res.out))

(***************************************************************************)
(* parse_statement, parse.rs 338-348.                                      *)
(***************************************************************************)
\* let parsers = [parse_if, parse_expression_statement, parse_return,
\*                parse_function, parse_local];
parsers ==
  <<"parse_if", "parse_expression_statement", "parse_return", "parse_function",
    "parse_local">>

\* parser(raw, tokens, index) for the parser of the given name
apply_parser(name, toks, i) ==
  CASE name = "parse_if" -> parse_if(toks, i)
    [] name = "parse_expression_statement" -> parse_expression_statement(toks, i)
    [] name = "parse_return" -> parse_return(toks, i)
    [] name = "parse_function" -> parse_function(toks, i)
    [] name = "parse_local" -> parse_local(toks, i)

\* the for loop of lines 340-345, from the k-th parser on
try_parsers(toks, i, k, out, trace) ==
  IF k > Len(parsers) THEN [None(FALSE, out) EXCEPT !.trace = trace]
  ELSE
    Let(apply_parser(parsers[k], toks, i), LAMBDA res :
      LET entry == [rule |-> parsers[k], kind |-> res.kind, hard |-> res.hard]
      IN IF res.kind = "none"
         THEN try_parsers(toks, i, k + 1, out \o res.out, Append(trace, entry))
         ELSE [Prepend(out, res) EXCEPT !.trace = Append(trace, entry)])

parse_statement(toks, i) == try_parsers(toks, i, 1, <<>>, <<>>)

(***************************************************************************)
(* Inputs: the token sequences parse is run on.                            *)
(***************************************************************************)
RECURSIVE SeqsUpTo(_, _)
\* all sequences over S of length at most n
SeqsUpTo(S, n) ==
  IF n = 0 THEN {<<>>}
  ELSE LET shorter == SeqsUpTo(S, n - 1)
       IN shorter \cup {Append(q, t) : q \in {r \in shorter : Len(r) = n - 1}, t \in S}

\* the i-th parameter and the j-th body statement of a generated declaration
ParamToken(i) == ID("p" \o ToString(i))
BodyTokens(j) == <<ID("g" \o ToString(j)), SY("("), SY(")"), SY(";")>>

RECURSIVE ParamListTokens(_)
\* p1 , p2 , ... , pn
ParamListTokens(n) ==
  IF n = 0 THEN <<>>
  ELSE IF n = 1 THEN <<ParamToken(1)>>
  ELSE ParamListTokens(n - 1) \o <<SY(","), ParamToken(n)>>

RECURSIVE BodyListTokens(_)
\* g1 ( ) ; g2 ( ) ; ... gm ( ) ;
BodyListTokens(m) ==
  IF m = 0 THEN <<>> ELSE BodyListTokens(m - 1) \o BodyTokens(m)

\* function f ( p1 , ... , pn ) g1 ( ) ; ... gm ( ) ; end
FunctionProgram(n, m) ==
  <<KW("function"), ID("f"), SY("(")>> \o ParamListTokens(n) \o <<SY(")")>>
    \o BodyListTokens(m) \o <<KW("end")>>

\* local x 5;
LocalProgram == <<KW("local"), ID("x"), NUM("5"), SY(";")>>
\* return foo(1, 2);
ReturnCallProgram ==
  <<KW("return"), ID("foo"), SY("("), NUM("1"), SY(","), NUM("2"), SY(")"), SY(";")>>
\* if a == b then return a; end
IfProgram ==
  <<KW("if"), ID("a"), SY("=="), ID("b"), KW("then"), KW("return"), ID("a"),
    SY(";"), KW("end")>>
\* function add(a, b) return a + b; end
AddProgram ==
  <<KW("function"), ID("add"), SY("("), ID("a"), SY(","), ID("b"), SY(")"),
    KW("return"), ID("a"), SY("+"), ID("b"), SY(";"), KW("end")>>
\* foo(1 2);
MissingCommaNumbers == <<ID("foo"), SY("("), NUM("1"), NUM("2"), SY(")"), SY(";")>>
\* foo(a() b());
MissingCommaCalls ==
  <<ID("foo"), SY("("), ID("a"), SY("("), SY(")"), ID("b"), SY("("), SY(")"),
    SY(")"), SY(";")>>
\* foo(a();
MissingParen == <<ID("foo"), SY("("), ID("a"), SY("("), SY(")"), SY(";")>>
\* return foo(a(), b());
ReturnNestedCalls ==
  <<KW("return"), ID("foo"), SY("("), ID("a"), SY("("), SY(")"), SY(","),
    ID("b"), SY("("), SY(")"), SY(")"), SY(";")>>
\* local x f();
LocalCallProgram == <<KW("local"), ID("x"), ID("f"), SY("("), SY(")"), SY(";")>>
\* if t() then return a(); end h();
IfCallProgram ==
  <<KW("if"), ID("t"), SY("("), SY(")"), KW("then"), KW("return"), ID("a"),
    SY("("), SY(")"), SY(";"), KW("end"), ID("h"), SY("("), SY(")"), SY(";")>>
\* if t() return a(); end
IfWithoutThen ==
  <<KW("if"), ID("t"), SY("("), SY(")"), KW("return"), ID("a"), SY("("), SY(")"),
    SY(";"), KW("end")>>
\* a + b;
BinaryStatement == <<ID("a"), SY("+"), ID("b"), SY(";")>>

Scenarios ==
  { LocalProgram, ReturnCallProgram, IfProgram, AddProgram, MissingCommaNumbers,
    MissingCommaCalls, MissingParen, ReturnNestedCalls, LocalCallProgram,
    IfCallProgram, IfWithoutThen, BinaryStatement }
  \cup { FunctionProgram(n, m) : n \in 0..MaxParams, m \in 0..MaxBody }

\* every scenario and every program that stops short inside one
Prefixes(S) == UNION { { SubSeq(q, 1, k) : k \in 0..Len(q) } : q \in S }

Inputs ==
  SeqsUpTo(Alphabet, MaxLen) \cup SeqsUpTo(CallAlphabet, MaxCallLen)
    \cup Prefixes(Scenarios)

(***************************************************************************)
(* parse, parse.rs 350-366: the driver.                                    *)
(***************************************************************************)
\* before parse is called
Init ==
  /\ tokens = <<>>
  /\ pc = "call"
  /\ index = 0
  /\ ast = <<>>
  /\ result = "none"
  /\ errLoc = -1
  /\ oob = -1
  /\ printed = <<>>
  /\ tried = <<>>

\* lines 350-352: parse is called with a token sequence; ast is empty and
\* the cursor is 0
ParseCall ==
  /\ pc = "call"
  /\ tokens' \in Inputs
  /\ pc' = "loop"
  /\ index' = 0
  /\ ast' = <<>>
  /\ UNCHANGED <<result, errLoc, oob, printed, tried>>

\* lines 354-359: parse_statement succeeds; the cursor moves, the loop goes on
ParseAdvance ==
  /\ pc = "loop"
  /\ index < Len(tokens)
  /\ \E res \in {parse_statement(tokens, index)} :
        /\ res.kind = "some"
        /\ index' = res.pos
        /\ ast' = Append(ast, res.node)
        /\ printed' = printed \o res.out
        /\ tried' = res.trace
  /\ UNCHANGED <<tokens, pc, result, errLoc, oob>>

\* line 362: parse_statement returns None; parse returns Err at tokens[index]
ParseInvalidToken ==
  /\ pc = "loop"
  /\ index < Len(tokens)
  /\ \E res \in {parse_statement(tokens, index)} :
        /\ res.kind = "none"
        /\ printed' = printed \o res.out
        /\ tried' = res.trace
  /\ pc' = "done"
  /\ result' = "Err"
  /\ errLoc' = index
  /\ UNCHANGED <<tokens, index, ast, oob>>

\* a rule has indexed tokens at or past the end: the panic ends parse
ParsePanic ==
  /\ pc = "loop"
  /\ index < Len(tokens)
  /\ \E res \in {parse_statement(tokens, index)} :
        /\ res.kind = "fault"
        /\ printed' = printed \o res.out
        /\ tried' = res.trace
        /\ oob' = res.at
  /\ pc' = "done"
  /\ result' = "Fault"
  /\ UNCHANGED <<tokens, index, ast, errLoc>>

\* lines 353 and 365: the loop condition fails; parse returns Ok(ast)
ParseOk ==
  /\ pc = "loop"
  /\ index >= Len(tokens)
  /\ pc' = "done"
  /\ result' = "Ok"
  /\ UNCHANGED <<tokens, index, ast, errLoc, oob, printed, tried>>

Next == ParseCall \/ ParseAdvance \/ ParseInvalidToken \/ ParsePanic \/ ParseOk

Spec == Init /\ [][Next]_vars

\* the driver is the only thread and runs until it returns
LiveSpec == Init /\ [][Next]_vars /\ WF_vars(Next)

(***************************************************************************)
(* Properties.                                                             *)
(***************************************************************************)
Positions == 0..Len(tokens)

IsLiteralToken(t) == t.kind \in {"Identifier", "Number"}

\* C1: whenever parse returns Ok, the driver's cursor equals the length of
\* the token sequence exactly: no token is left unread and no rule has
\* returned a position past the end.
TotalConsumption ==
  (pc = "done" /\ result = "Ok") => index = Len(tokens)

\* parse has returned Ok after two turns of the driver loop
TotalConsumptionWitness ==
  /\ pc = "done"
  /\ result = "Ok"
  /\ Len(ast) = 2
  /\ index = Len(tokens)

\* C2: at every position of every token sequence, each of the seven rules
\* that reports success returns a position strictly greater than the
\* position it was called with.
MonotonicProgress ==
  \A i \in Positions :
    /\ parse_expression(tokens, i).kind = "some"
         => parse_expression(tokens, i).pos > i
    /\ parse_statement(tokens, i).kind = "some"
         => parse_statement(tokens, i).pos > i
    /\ \A k \in 1..Len(parsers) :
         apply_parser(parsers[k], tokens, i).kind = "some"
           => apply_parser(parsers[k], tokens, i).pos > i

\* the driver has taken a statement, and each of the five statement rules
\* succeeds somewhere in the sequence
MonotonicProgressWitness ==
  /\ index > 0
  /\ Len(ast) > 0
  /\ \E i \in Positions : parse_return(tokens, i).kind = "some"
  /\ \E i \in Positions : parse_if(tokens, i).kind = "some"
  /\ \E i \in Positions : parse_expression_statement(tokens, i).kind = "some"

\* C3: parse eventually stops on every token sequence; no loop of the
\* driver or of a rule runs for ever.
Termination == <>(pc = "done")

\* parse has returned after the driver loop, a body loop and an argument
\* loop have each taken at least one turn
TerminationWitness ==
  /\ pc = "done"
  /\ Len(ast) >= 1
  /\ \/ /\ ast[1].type = "FunctionDeclaration"
        /\ Len(ast[1].body) >= 2
     \/ /\ ast[1].type = "Return"
        /\ ast[1].expression.type = "FunctionCall"
        /\ Len(ast[1].expression.arguments) >= 2

\* C4: when a function call lacks the comma between two arguments (the
\* argument loop reports the missing comma at token k), parse returns
\* failure and the diagnostic it returns is located at token k.
FailFastMalformedCall ==
  \A k \in Positions :
    (pc = "done"
       /\ \E n \in 1..Len(printed) :
            printed[n] = <<"Expected comma between function call arguments:", k>>)
      => (result = "Err" /\ errLoc = k)

\* C5: after a rule has matched its leading token at the driver's position
\* and then failed, parse_statement tries no further rule at that position;
\* only a leading-token non-match lets the next rule be tried.
HardErrorsNotRetried ==
  \A j \in 1..Len(tried) :
    (tried[j].kind = "none" /\ tried[j].hard) => j = Len(tried)

\* the parameters and the body that FunctionProgram(n, m) declares
DeclaredParameters(n) == [i \in 1..n |-> ParamToken(i)]
DeclaredBody(m) ==
  [j \in 1..m |-> StatementExpression(FunctionCall(BodyTokens(j)[1], <<>>))]

\* C6: a program that is one function declaration with n parameters and m
\* body statements parses to exactly one FunctionDeclaration holding the n
\* parameter tokens and the m statements in source order.
FunctionDeclarationShape ==
  \A n \in 0..MaxParams, m \in 0..MaxBody :
    (pc = "done" /\ tokens = FunctionProgram(n, m))
      => /\ result = "Ok"
         /\ ast = <<FunctionDeclaration(ID("f"), DeclaredParameters(n),
                                        DeclaredBody(m))>>

\* C7: a literal token at i, a Syntax token other than "(" at i+1 and a
\* literal token at i+2 make parse_expression at i return the
\* BinaryOperation of the three with position i+3.
BinaryOperationRule ==
  \A i \in Positions :
    (/\ i + 2 < Len(tokens)
     /\ IsLiteralToken(At(tokens, i))
     /\ At(tokens, i + 1).kind = "Syntax"
     /\ At(tokens, i + 1).value # "("
     /\ IsLiteralToken(At(tokens, i + 2)))
      => LET res == parse_expression(tokens, i)
         IN /\ res.kind = "some"
            /\ res.pos = i + 3
            /\ res.node = BinaryOperation(At(tokens, i + 1),
                                          literal_of(At(tokens, i)),
                                          literal_of(At(tokens, i + 2)))

\* C8: parse_expression reports "not an expression" at its first check
\* only when the token at the position is neither an Identifier nor a
\* Number (or there is none), and `return foo(1, 2);` parses to one Return
\* of the FunctionCall foo with the Number literals 1 and 2.
FunctionCallRule ==
  /\ \A i \in Positions :
       LET res == parse_expression(tokens, i)
       IN (res.kind = "none" /\ ~res.hard)
            => (i >= Len(tokens) \/ ~IsLiteralToken(At(tokens, i)))
  /\ (pc = "done" /\ tokens = ReturnCallProgram)
       => /\ result = "Ok"
          /\ ast = <<Return(FunctionCall(ID("foo"),
                       <<LiteralNumber(NUM("1")), LiteralNumber(NUM("2"))>>))>>

\* C9: `local`, an Identifier name, one initializer expression and `;`
\* parse to exactly one Local statement carrying that name and that
\* expression, all tokens consumed; `local x 5;` gives name x and
\* initializer Literal(Number 5).
LocalDeclaration ==
  (/\ pc = "done"
   /\ Len(tokens) >= 4
   /\ tokens[1] = KW("local")
   /\ tokens[2].kind = "Identifier"
   /\ tokens[Len(tokens)] = SY(";")
   /\ \/ Len(tokens) = 4 /\ IsLiteralToken(tokens[3])
      \/ LET e == parse_expression(tokens, 2)
         IN e.kind = "some" /\ e.pos = Len(tokens) - 1)
    => /\ result = "Ok"
       /\ index = Len(tokens)
       /\ Len(ast) = 1
       /\ ast[1].type = "Local"
       /\ ast[1].name = tokens[2]
       /\ Len(tokens) = 4 => ast[1].expression = literal_of(tokens[3])

\* C10: every read of the token sequence during parse uses an index below
\* its length, so parse ends by returning Ok or Err, never by an index
\* fault.
NoOutOfBoundsRead ==
  /\ oob = -1
  /\ pc = "done" => result \in {"Ok", "Err"}

====
